---- MODULE Spec2Model ----
(***************************************************************************)
(* Bubbles: buoyant particles rendered by an Engine with a perspective     *)
(* projection (src/unnamed/part_000, the current variant; src/engine.js    *)
(* is the legacy variant with the same Engine/Bubble skeleton).            *)
(*                                                                         *)
(* The module follows ONE Engine instance (its _area is chosen in Init:    *)
(* the two instances built by window.onload share no field), together with *)
(* the whole animation-frame queue of the page: the render callbacks of    *)
(* both instances and the global render(callback) wrapper.                 *)
(*                                                                         *)
(* Numbers.  JavaScript numbers are modelled as exact rationals <<n, d>>   *)
(* (d > 0, lowest terms).  TLC integers are 32 bit, so the physical        *)
(* constants are kept to the precision that fits: densities in whole       *)
(* kg/m^3, g = 10, pi = 3 and a length scale of 2 px per metre.  The       *)
(* order air < bubble < water of the densities, on which the direction of  *)
(* motion depends, is the one of the source.                               *)
(***************************************************************************)
EXTENDS Integers, Sequences, FiniteSets, TLC

VARIABLES
    area,       \* Engine._area of the observed instance: "air" or "water"
    width,      \* Engine._width
    height,     \* Engine._height
    bubbles,    \* Engine._bubbles: sequence of Bubble records
    pending,    \* callbacks registered with requestAnimationFrame for the next tick
    running,    \* callbacks of the current tick not yet run, in registration order
    frames,     \* per engine: render() runs during the current tick
    calls,      \* calls made by the latest render() of the observed engine
    drawn,      \* what each draw() of that render() put on the canvas
    last,       \* latest operation on the observed engine
    nResizes    \* resize events delivered so far

vars == <<area, width, height, bubbles, pending, running, frames, calls, drawn,
          last, nResizes>>

----------------------------------------------------------------------------
(* Bounds of the model *)

MaxBubbles == 2
MaxResizes == 1
MaxChains == 1

\* Values of Math.random() (in [0,1)) for the draws of one create(), in the
\* order radius, x, z.  The draw for _reflect reaches no modelled field.
RandomDraws ==
    { <<(<<0, 1>>), (<<0, 1>>), (<<1, 2>>)>>,
      <<(<<1, 2>>), (<<1, 2>>), (<<0, 1>>)>> }

\* Size budgets passed to createBubble
Sizes == {6, 8}

\* scrollWidth, scrollHeight of the container, per medium
ContainerSizes(a) ==
    IF a = "air" THEN { <<8, 15>>, <<10, 16>> }
                 ELSE { <<8, 16>>, <<8, 1600>> }

AreaNames == {"air", "water"}

----------------------------------------------------------------------------
(* Exact rational arithmetic *)

Abs(a) == IF a < 0 THEN -a ELSE a

RECURSIVE GCD(_, _)
GCD(a, b) == IF b = 0 THEN a ELSE GCD(b, a % b)

Rat(n, d) ==
    LET g == GCD(Abs(n), Abs(d))
        s == IF d < 0 THEN -1 ELSE 1
    IN  <<(s * n) \div g, (s * d) \div g>>

RInt(i) == <<i, 1>>

RMul(a, b) == Rat(a[1] * b[1], a[2] * b[2])

RDiv(a, b) == RMul(a, IF b[1] < 0 THEN <<-b[2], -b[1]>> ELSE <<b[2], b[1]>>)

RAdd(a, b) ==
    LET g == GCD(a[2], b[2])
    IN  Rat(a[1] * (b[2] \div g) + b[1] * (a[2] \div g), (a[2] \div g) * b[2])

RNeg(a) == <<-a[1], a[2]>>

RSub(a, b) == RAdd(a, RNeg(b))

\* the sign of a - b is the sign of a[1]*b[2] - b[1]*a[2]
RCmp(a, b) ==
    LET g == GCD(a[2], b[2])
    IN  a[1] * (b[2] \div g) - b[1] * (a[2] \div g)

RLt(a, b) == RCmp(a, b) < 0

RLe(a, b) == RCmp(a, b) <= 0

RAbs(a) == <<Abs(a[1]), a[2]>>

\* Math.floor
Floor(a) == a[1] \div a[2]

Zero == RInt(0)

----------------------------------------------------------------------------
(* Physical constants and the media table AREAS *)

ATMOSPHERIC_PRESSURE == 101325
\* kg/mol, in units of 1e-5
AIR_MOLAR_MASS == 2896
\* J/(K mol), in units of 1e-3
IDEAL_GAS == 8314
\* in units of 1e-2 K
KELVIN == 27315
\* the default t of AREAS.air.density, in units of 1e-2 degrees
AIR_TEMPERATURE == 2700
\* the defaults t and s of AREAS.water.density
WATER_TEMPERATURE == 18
WATER_SALINITY == 10
\* m/s^2, rounded
GRAVITY_EARTH == 10
\* Math.PI, rounded
PI == 3
\* the factor of convertPixelToMeter / convertMeterToPixel, at the model's scale
PIXELS_PER_METER == 2

\* AREAS.air.density(): (p*AIR_MOLAR_MASS) / (IDEAL_GAS*(t + KELVIN)), whole kg/m^3
AirDensity ==
    RInt((ATMOSPHERIC_PRESSURE * AIR_MOLAR_MASS)
            \div (IDEAL_GAS * (AIR_TEMPERATURE + KELVIN)))

\* AREAS.water.density(): 1000 - 0.12*t + 0.35*s, whole kg/m^3
WaterDensity ==
    RInt(1000 - (12 * WATER_TEMPERATURE) \div 100 + (35 * WATER_SALINITY) \div 100)

\* this._area.density()
AreaDensity(a) == IF a = "air" THEN AirDensity ELSE WaterDensity

\* AREAS.air.density() * 0.999 + AREAS.water.density() * 0.001
BubbleDensity ==
    RAdd(RMul(AirDensity, <<999, 1000>>), RMul(WaterDensity, <<1, 1000>>))

ConvertPixelToMeter(p) == RDiv(p, RInt(PIXELS_PER_METER))

ConvertMeterToPixel(m) == RMul(m, RInt(PIXELS_PER_METER))

Cube(a) == RMul(a, RMul(a, a))

----------------------------------------------------------------------------
(* class Bubble.  A bubble is a record
     id: the object's identity, width, height, size, perspective: numbers,
     radius, x, y, z, scaleProjected, surface: rationals.
   _xProjected, _yProjected, _reflect, _color and the projection centre are
   read by the canvas calls of draw() only and are left out. *)

\* Faulty variant of the radius: + 8 in place of + 7
RadiusPlusEight(size, u) == Rat(Floor(RMul(u, RInt(size - 6))) + 8, 2)

\* this._radius = (Math.floor(Math.random() * (this._size - 6)) + 7) / 2
CreateRadius(size, u) == Rat(Floor(RMul(u, RInt(size - 6))) + 7, 2)

\* Faulty variant of the depth: drawn from [2*width, 3*width)
DepthBehindScene(w, u) == RMul(RAdd(u, RInt(2)), RInt(w))

\* this._z = Math.random() * this._width
CreateDepth(w, u) == RMul(u, RInt(w))

\* 4/3 * Math.PI * Math.pow(convertPixelToMeter(this._radius), 3)
Surface(radius) ==
    RMul(RMul(<<4, 3>>, RInt(PI)), Cube(ConvertPixelToMeter(radius)))

\* Bubble.create, on the fields of b, with the random numbers u
Create(b, u) ==
    LET r == CreateRadius(b.size, u[1])
    IN  [b EXCEPT !.perspective = b.width * 1,
                  !.radius = r,
                  !.x = RAdd(RMul(RSub(u[2], <<1, 2>>), RInt(b.width)), r),
                  !.y = RAdd(Rat(b.height, 2), r),
                  !.z = CreateDepth(b.width, u[3]),
                  !.scaleProjected = Zero,
                  !.surface = Surface(r)]

\* new Bubble(ctx, w, h, s)
NewBubble(id, w, h, s, u) ==
    Create([id |-> id, width |-> w, height |-> h, size |-> s, perspective |-> 0,
            radius |-> Zero, x |-> Zero, y |-> Zero, z |-> Zero,
            scaleProjected |-> Zero, surface |-> Zero], u)

\* Faulty variant of update: y is rescaled by the ratio of the widths
UpdateByWidthOnly(b, w, h) ==
    [b EXCEPT !.perspective = w * 1,
              !.x = RMul(b.x, Rat(w, b.width)),
              !.y = RMul(b.y, Rat(w, b.width)),
              !.z = RMul(b.z, Rat(w, b.width)),
              !.width = w,
              !.height = h]

\* Bubble.update
Update(b, w, h) ==
    [b EXCEPT !.perspective = w * 1,
              !.x = RMul(b.x, Rat(w, b.width)),
              !.y = RMul(b.y, Rat(h, b.height)),
              !.z = RMul(b.z, Rat(w, b.width)),
              !.width = w,
              !.height = h]

\* Bubble.updatePosition
UpdatePosition(b, x, y, z) == [b EXCEPT !.x = x, !.y = y, !.z = z]

\* Bubble.project: scaleProjected = perspective / (perspective + z)
Project(b) ==
    [b EXCEPT !.scaleProjected =
        RDiv(RInt(b.perspective), RAdd(RInt(b.perspective), b.z))]

\* ctx.globalAlpha = Math.abs(1 - this._z / this._width)
Alpha(b) == RAbs(RSub(RInt(1), RDiv(b.z, RInt(b.width))))

\* Bubble.draw: project() again, then the canvas calls; the record is what
\* reaches the canvas
Draw(b) == Project(b)

Stroke(b) ==
    [id |-> b.id, x |-> b.x, y |-> b.y, z |-> b.z,
     scale |-> b.scaleProjected, alpha |-> Alpha(b)]

----------------------------------------------------------------------------
(* class Engine *)

\* convertMeterToPixel(g_force - p_force) / 1000, with
\* g_force = bubble_density * bubble_volume * GRAVITY_EARTH and
\* p_force = area_density * bubble_volume * GRAVITY_EARTH
\* (tabulated over the media and the volumes create() can produce)
Volumes == {Surface(CreateRadius(s, u[1])) : s \in Sizes, u \in RandomDraws}

DisplacementOf[a \in AreaNames, bubble_volume \in Volumes] ==
    LET g_force == RMul(RMul(BubbleDensity, bubble_volume), RInt(GRAVITY_EARTH))
        p_force == RMul(RMul(AreaDensity(a), bubble_volume), RInt(GRAVITY_EARTH))
    IN  RDiv(ConvertMeterToPixel(RSub(g_force, p_force)), RInt(1000))

\* Faulty variant of the displacement: the forces cancel
NoDisplacement(a, b) == Zero

\* Faulty variant of the displacement: p_force - g_force
OppositeDisplacement(a, b) == RNeg(DisplacementOf[a, b.surface])

Displacement(a, b) == DisplacementOf[a, b.surface]

\* pos.y + radius <= 0 || pos.y + radius >= this._height
OutOfBounds(y, radius, h) ==
    \/ RLe(RAdd(y, radius), Zero)
    \/ RLe(RInt(h), RAdd(y, radius))

\* Engine._detectCollision(i): st is [bubbles, calls, drawn]; the result is
\* the set of outcomes, one per value of the random numbers create() draws
DetectCollision(st, i, h) ==
    LET b == st.bubbles[i]
    IN  IF OutOfBounds(b.y, b.radius, h)
        THEN {[st EXCEPT !.bubbles[i] = Create(b, u),
                         !.calls = Append(Append(st.calls, <<"detect", b.id>>),
                                          <<"create", b.id>>)] : u \in RandomDraws}
        ELSE {[st EXCEPT !.calls = Append(st.calls, <<"detect", b.id>>)]}

\* the sign of bubble1.scaleProjected - bubble2.scaleProjected, the comparator
\* of the sort
Compare(bubble1, bubble2) == RCmp(bubble1.scaleProjected, bubble2.scaleProjected)

\* Faulty variant of the sort: the array is left in the order it had
UnsortedByScale(bs) == bs

\* Faulty variant of the sort: the array is reversed
ReversedOrder(bs) == [i \in 1..Len(bs) |-> bs[Len(bs) + 1 - i]]

\* Array.prototype.sort with that comparator (stable)
RECURSIVE InsertBubble(_, _)
InsertBubble(s, b) ==
    IF s = <<>> THEN <<b>>
    ELSE IF Compare(s[Len(s)], b) <= 0 THEN Append(s, b)
    ELSE Append(InsertBubble(SubSeq(s, 1, Len(s) - 1), b), s[Len(s)])

RECURSIVE SortByScale(_)
SortByScale(bs) ==
    IF bs = <<>> THEN <<>>
    ELSE InsertBubble(SortByScale(SubSeq(bs, 1, Len(bs) - 1)), bs[Len(bs)])

\* the first loop of _drawBubbles: project() on every bubble
ProjectAll(st) ==
    [st EXCEPT !.bubbles = [i \in 1..Len(st.bubbles) |-> Project(st.bubbles[i])],
               !.calls = st.calls \o [i \in 1..Len(st.bubbles) |->
                                         <<"project", st.bubbles[i].id>>]]

\* Faulty variant of the loop body: the boundary check runs before draw()
DrawAfterDetect(st, i, a, h) ==
    LET b0 == st.bubbles[i]
        y1 == RAdd(b0.y, Displacement(a, b0))
        b1 == UpdatePosition(b0, b0.x, y1, b0.z)
        st1 == [st EXCEPT !.bubbles[i] = b1,
                          !.calls = st.calls \o << <<"displace", b0.id>>,
                                                   <<"updatePosition", b0.id>> >>]
    IN  {[s EXCEPT !.bubbles[i] = Draw(s.bubbles[i]),
                   !.calls = Append(s.calls, <<"draw", b0.id>>),
                   !.drawn = Append(s.drawn, Stroke(Draw(s.bubbles[i])))] :
            s \in DetectCollision(st1, i, h)}

\* one turn of the second loop of _drawBubbles
LoopBody(st, i, a, h) ==
    LET b0 == st.bubbles[i]
        y1 == RAdd(b0.y, Displacement(a, b0))
        b1 == UpdatePosition(b0, b0.x, y1, b0.z)
        b2 == Draw(b1)
        st1 == [st EXCEPT !.bubbles[i] = b2,
                          !.calls = st.calls \o << <<"displace", b0.id>>,
                                                   <<"updatePosition", b0.id>>,
                                                   <<"draw", b0.id>> >>,
                          !.drawn = Append(st.drawn, Stroke(b2))]
    IN  DetectCollision(st1, i, h)

\* the second loop of _drawBubbles from index i on, on each outcome so far
RECURSIVE Loop(_, _, _, _, _)
Loop(sts, i, n, a, h) ==
    IF i > n THEN sts
    ELSE Loop(UNION {LoopBody(st, i, a, h) : st \in sts}, i + 1, n, a, h)

\* Engine._drawBubbles, after the clearRect of render: the set of outcomes
DrawBubbles(bs, a, h) ==
    LET st0 == [bubbles |-> bs, calls |-> << <<"clear", 0>> >>, drawn |-> <<>>]
        st1 == ProjectAll(st0)
        st2 == [st1 EXCEPT !.bubbles = SortByScale(st1.bubbles),
                           !.calls = Append(st1.calls, <<"sort", 0>>)]
    IN  Loop({st2}, 1, Len(bs), a, h)

\* Engine.createBubble(n, s): n pushes of new Bubble(ctx, _width, _height, s),
\* on each outcome so far
RECURSIVE CreateBubbles(_, _, _, _, _)
CreateBubbles(bss, n, w, h, s) ==
    IF n = 0 THEN bss
    ELSE CreateBubbles({Append(bs, NewBubble(Len(bs) + 1, w, h, s, u)) :
                            bs \in bss, u \in RandomDraws},
                       n - 1, w, h, s)

\* Engine.updateBubbles
UpdateBubbles(bs, w, h) == [i \in 1..Len(bs) |-> Update(bs[i], w, h)]

----------------------------------------------------------------------------
(* The animation-frame queue.  A callback is "air" or "water"
   (that engine's render, registered by itself) or "loop"
   (() => render(callback), registered by window.onload and by render). *)

Count(q, c) == Cardinality({i \in 1..Len(q) : q[i] = c})

\* window.requestAnimationFrame(c); the model keeps at most MaxChains
\* registrations of one callback
Request(q, c) == IF Count(q, c) < MaxChains THEN Append(q, c) ELSE q

ZeroFrames == [e \in AreaNames |-> 0]

\* window.onload: the engine is built on its container, createBubble(n, s) is
\* called and the first frame is requested
Init ==
    /\ area \in AreaNames
    /\ \E d \in ContainerSizes(area), n \in 1..MaxBubbles, s \in Sizes :
          /\ width = d[1]
          /\ height = d[2]
          /\ bubbles \in CreateBubbles({<<>>}, n, d[1], d[2], s)
    /\ pending = <<"loop">>
    /\ running = <<>>
    /\ frames = ZeroFrames
    /\ calls = <<>>
    /\ drawn = <<>>
    /\ last = "load"
    /\ nResizes = 0

\* the host starts a tick: the callbacks registered so far are the ones it runs
Tick ==
    /\ running = <<>>
    /\ pending # <<>>
    /\ running' = pending
    /\ pending' = <<>>
    /\ frames' = ZeroFrames
    /\ UNCHANGED <<area, width, height, bubbles, calls, drawn, last, nResizes>>

\* Engine.render of the observed engine: clearRect, _drawBubbles
RenderObserved ==
    \E st \in DrawBubbles(bubbles, area, height) :
        /\ bubbles' = st.bubbles
        /\ calls' = st.calls
        /\ drawn' = st.drawn
        /\ last' = "frame"

\* Engine.render of engine e, run as a callback of the tick
RunRender ==
    /\ running # <<>>
    /\ Head(running) \in AreaNames
    /\ LET e == Head(running)
       IN  /\ IF e = area THEN RenderObserved
                          ELSE UNCHANGED <<bubbles, calls, drawn, last>>
           /\ frames' = [frames EXCEPT ![e] = @ + 1]
           /\ pending' = Request(pending, e)
    /\ running' = Tail(running)
    /\ UNCHANGED <<area, width, height, nResizes>>

\* render(callback): air_engine.render(); water_engine.render(); then
\* requestAnimationFrame(() => render(callback))
RunLoop ==
    /\ running # <<>>
    /\ Head(running) = "loop"
    /\ RenderObserved
    /\ frames' = [e \in AreaNames |-> frames[e] + 1]
    /\ pending' = Request(Request(Request(pending, "air"), "water"), "loop")
    /\ running' = Tail(running)
    /\ UNCHANGED <<area, width, height, nResizes>>

\* Engine._onResize, on a resize event between two ticks.  Setting
\* canvas.width clears the canvas: nothing of the latest render() is left
OnResize ==
    /\ running = <<>>
    /\ nResizes < MaxResizes
    /\ \E d \in ContainerSizes(area) :
          /\ width' = d[1]
          /\ height' = d[2]
          /\ bubbles' = UpdateBubbles(bubbles, d[1], d[2])
    /\ nResizes' = nResizes + 1
    /\ last' = "resize"
    /\ calls' = <<>>
    /\ drawn' = <<>>
    /\ UNCHANGED <<area, pending, running, frames>>

Next == Tick \/ RunRender \/ RunLoop \/ OnResize

Spec == Init /\ [][Next]_vars

\* the host runs the next callback of the tick: the step of RunRender and of
\* RunLoop on the queue
RunCallback == running # <<>> /\ running' = Tail(running)

\* the host keeps delivering animation frames, and runs every callback of a
\* frame
LiveSpec == Spec /\ WF_vars(Tick) /\ WF_running(RunCallback)

----------------------------------------------------------------------------
(* Properties *)

\* identities of the bubbles on which the calls cs include a create()
Recycled(cs) == {b \in 1..MaxBubbles : \E k \in 1..Len(cs) : cs[k] = <<"create", b>>}

\* the bubbles of bs that the calls cs did not recycle, in the order of bs
Kept(bs, cs) == LET NotRecycled(b) == b.id \notin Recycled(cs)
                IN  SelectSeq(bs, NotRecycled)

\* bs is in non-decreasing order of scaleProjected
SortedByScale(bs) ==
    \A i \in 1..(Len(bs) - 1) : RLe(bs[i].scaleProjected, bs[i + 1].scaleProjected)

\* a tick has been run to its end
TickDone == running = <<>> /\ pending # <<"loop">>

\* C1: on every tick each engine's render() runs exactly once: never more
\* than once while the tick is running, and once when the tick is over.
C1_OncePerTick ==
    \A e \in AreaNames : /\ frames[e] <= 1
                          /\ (TickDone => frames[e] = 1)

\* C1, the case that fails: an engine's render() has run twice in one tick
C1_TwiceInOneTick == \E e \in AreaNames : frames[e] >= 2

\* C2 as stated: after every frame the collection is in non-decreasing order
\* of scaleProjected, recycling frames included.
C2_SortedAfterFrame == last = "frame" => SortedByScale(bubbles)

\* C2: after every frame the bubbles the frame did not recycle are in
\* non-decreasing order of scaleProjected, and each bubble it recycled has
\* scaleProjected = 0 until the next frame projects it.
C2_KeptSortedAfterFrame ==
    last = "frame" =>
        /\ SortedByScale(Kept(bubbles, calls))
        /\ \A i \in 1..Len(bubbles) :
              bubbles[i].id \in Recycled(calls) => bubbles[i].scaleProjected = Zero

\* C2, the case: a frame recycled a bubble that stands after one it kept
C2_RecycledBehindKept ==
    /\ last = "frame"
    /\ \E i, j \in 1..Len(bubbles) :
          /\ i < j
          /\ bubbles[i].id \notin Recycled(calls)
          /\ bubbles[j].id \in Recycled(calls)
          /\ RLt(Zero, bubbles[i].scaleProjected)

\* C3 as stated: at the end of every frame every bubble, the recycled ones
\* included, satisfies 0 < y + radius < height.
C3_InBoundsAfterFrame ==
    last = "frame" =>
        \A i \in 1..Len(bubbles) :
            LET edge == RAdd(bubbles[i].y, bubbles[i].radius)
            IN  RLt(Zero, edge) /\ RLt(edge, RInt(height))

\* C3, the case that fails: a bubble recycled by the frame is out of bounds
\* where create() put it
C3_RecycledOutOfBounds ==
    /\ last = "frame"
    /\ \E i \in 1..Len(bubbles) :
          /\ bubbles[i].id \in Recycled(calls)
          /\ OutOfBounds(bubbles[i].y, bubbles[i].radius, height)

\* C6 as stated: the radius of every bubble lies in [3.5, size/2], whatever
\* the size budget.
C6_RadiusInBudget ==
    \A i \in 1..Len(bubbles) :
        /\ RLe(<<7, 2>>, bubbles[i].radius)
        /\ RLe(bubbles[i].radius, Rat(bubbles[i].size, 2))

\* C6: for every whole size budget of at least 7, the radius of every bubble
\* lies in [3.5, size/2], in every reachable state.
C6_RadiusInBudgetFromSeven ==
    \A i \in 1..Len(bubbles) :
        bubbles[i].size >= 7 =>
            /\ RLe(<<7, 2>>, bubbles[i].radius)
            /\ RLe(bubbles[i].radius, Rat(bubbles[i].size, 2))

\* C6, the case: a frame has recycled a bubble of budget >= 7 and create()
\* gave it the largest radius, size/2
C6_RecycledAtLargestRadius ==
    /\ last = "frame"
    /\ \E i \in 1..Len(bubbles) :
          /\ bubbles[i].id \in Recycled(calls)
          /\ bubbles[i].size >= 7
          /\ bubbles[i].radius = Rat(bubbles[i].size, 2)

\* C8: in every reachable state every bubble has 0 <= z < width, its width
\* being the engine's, and every opacity draw() has set lies in [0, 1].
C8_OpacityInUnitInterval ==
    /\ \A i \in 1..Len(bubbles) :
          /\ bubbles[i].width = width
          /\ RLe(Zero, bubbles[i].z)
          /\ RLt(bubbles[i].z, RInt(width))
    /\ \A k \in 1..Len(drawn) :
          /\ RLe(Zero, drawn[k].alpha)
          /\ RLe(drawn[k].alpha, RInt(1))

\* C8, the case: after a resize, a frame has drawn a bubble at the front
\* (opacity 1) and one inside the scene (opacity 1/2), and has recycled one
C8_DrawnAfterResize ==
    /\ last = "frame"
    /\ nResizes >= 1
    /\ Recycled(calls) # {}
    /\ \E k \in 1..Len(drawn) : drawn[k].alpha = RInt(1)
    /\ \E k \in 1..Len(drawn) : drawn[k].alpha = <<1, 2>>

\* C9: the draws of one frame are in non-decreasing order of the scale the
\* bubble has when it is drawn, which is non-increasing order of z.
C9_DrawnBackToFront ==
    \A k \in 1..(Len(drawn) - 1) :
        /\ RLe(drawn[k].scale, drawn[k + 1].scale)
        /\ RLe(drawn[k + 1].z, drawn[k].z)

\* C9, the case: a frame drew a farther bubble, recycled it, and then drew a
\* nearer one
C9_FartherDrawnFirst ==
    /\ last = "frame"
    /\ Len(drawn) >= 2
    /\ RLt(drawn[1].scale, drawn[2].scale)
    /\ drawn[1].id \in Recycled(calls)

\* the step is a resize event
ResizeStep == nResizes' = nResizes + 1

\* the step is a render() of the observed engine
FrameStep == frames'[area] = frames[area] + 1

\* C5: a resize multiplies x, y, z of every bubble by exactly w2/w1, h2/h1,
\* w2/w1, (w1, h1) being the size the bubble was last given and (w2, h2) the
\* engine's new size, which is the size the bubble stores afterwards.
C5_ResizeScalesExactly ==
    [][ResizeStep =>
          /\ Len(bubbles') = Len(bubbles)
          /\ \A i \in 1..Len(bubbles) :
                LET b == bubbles[i]
                    c == bubbles'[i]
                IN  /\ c.id = b.id
                    /\ RMul(c.x, RInt(b.width)) = RMul(b.x, RInt(width'))
                    /\ RMul(c.y, RInt(b.height)) = RMul(b.y, RInt(height'))
                    /\ RMul(c.z, RInt(b.width)) = RMul(b.z, RInt(width'))
                    /\ c.width = width'
                    /\ c.height = height'
                    /\ c.radius = b.radius]_vars

\* C5, the case: a resize has moved a bubble to a place where create() would
\* not have put it at the new size
C5_Rescaled ==
    /\ last = "resize"
    /\ \E i \in 1..Len(bubbles) :
          \A u \in RandomDraws :
              /\ bubbles[i].x # Create(bubbles[i], u).x
              /\ bubbles[i].y # Create(bubbles[i], u).y

\* the bubble of bs whose identity is id
BubbleOf(bs, id) == bs[CHOOSE i \in 1..Len(bs) : bs[i].id = id]

\* y2 is on the side of y1 to which a bubble moves in medium a: smaller when
\* the medium is denser than the bubble, larger when it is lighter
Moved(a, y1, y2) ==
    /\ RLt(BubbleDensity, AreaDensity(a)) => RLt(y2, y1)
    /\ RLt(AreaDensity(a), BubbleDensity) => RLt(y1, y2)
    /\ (a = "water") => RLt(y2, y1)
    /\ (a = "air") => RLt(y1, y2)

\* C7 as stated: every frame moves y of every bubble, down in value in water
\* and up in value in air.
C7_EveryFrameMovesY ==
    [][FrameStep =>
          \A i \in 1..Len(bubbles') :
              Moved(area, BubbleOf(bubbles, bubbles'[i].id).y, bubbles'[i].y)]_vars

\* C7: in every frame the position at which a bubble is drawn has moved from
\* the one it had before the frame, to smaller y when the medium is denser
\* than the bubble (water) and to larger y when it is lighter (air), and
\* every bubble the frame does not recycle keeps that position.
C7_FrameMovesKeptY ==
    [][FrameStep =>
          /\ \A k \in 1..Len(drawn') :
                Moved(area, BubbleOf(bubbles, drawn'[k].id).y, drawn'[k].y)
          /\ \A i \in 1..Len(bubbles') :
                bubbles'[i].id \notin Recycled(calls') =>
                    Moved(area, BubbleOf(bubbles, bubbles'[i].id).y, bubbles'[i].y)]_vars

\* C7, the case: a frame in water has recycled one bubble and kept another,
\* which is above the place where create() had put it
C7_WaterKeptAndRecycled ==
    /\ last = "frame"
    /\ area = "water"
    /\ Recycled(calls) # {}
    /\ \E i \in 1..Len(bubbles) :
          /\ bubbles[i].id \notin Recycled(calls)
          /\ RLt(bubbles[i].y, RAdd(Rat(height, 2), bubbles[i].radius))

\* the calls of the second loop for the bubbles of the draws ds, in that
\* order, rec being the identities that are recycled
RECURSIVE PerBubbleCalls(_, _)
PerBubbleCalls(ds, rec) ==
    IF ds = <<>> THEN <<>>
    ELSE LET id == Head(ds).id
         IN  << <<"displace", id>>, <<"updatePosition", id>>, <<"draw", id>>,
                <<"detect", id>> >>
             \o (IF id \in rec THEN << <<"create", id>> >> ELSE <<>>)
             \o PerBubbleCalls(Tail(ds), rec)

\* C4: a frame clears the surface, projects every bubble, sorts, and then
\* for each bubble in sorted order displaces, updates the position, draws and
\* checks the boundary; every bubble is drawn exactly once, at the position
\* it has after its displacement and before any recycle of it.
C4_PipelineOrder ==
    [][FrameStep =>
          LET n == Len(bubbles)
              rec == Recycled(calls')
          IN  /\ Len(bubbles') = n
              /\ Len(drawn') = n
              /\ \A i \in 1..n : \E k \in 1..n : drawn'[k].id = bubbles[i].id
              /\ \A k \in 1..(n - 1) : RLe(drawn'[k].scale, drawn'[k + 1].scale)
              /\ \A k \in 1..n :
                    LET b == BubbleOf(bubbles, drawn'[k].id)
                        y == RAdd(b.y, Displacement(area, b))
                    IN  /\ drawn'[k].x = b.x
                        /\ drawn'[k].y = y
                        /\ drawn'[k].z = b.z
                        /\ bubbles'[k].id = b.id
                        /\ (b.id \in rec) <=> OutOfBounds(y, b.radius, height)
              /\ calls' = << <<"clear", 0>> >>
                           \o [i \in 1..n |-> <<"project", bubbles[i].id>>]
                           \o << <<"sort", 0>> >>
                           \o PerBubbleCalls(drawn', rec)]_vars

\* C4, the case: a frame has drawn two bubbles or more, and has recycled one
\* after drawing it somewhere else than where create() then put it
C4_DrawnThenRecycled ==
    /\ last = "frame"
    /\ Len(drawn) >= 2
    /\ \E k \in 1..Len(drawn) :
          /\ drawn[k].id \in Recycled(calls)
          /\ drawn[k].y # BubbleOf(bubbles, drawn[k].id).y

\* C10: under fair delivery of the animation frames every bubble is recycled
\* by create() again and again, and no step changes the number of bubbles.
C10_RecycledForever ==
    /\ \A id \in 1..MaxBubbles :
          []<>(id <= Len(bubbles) => (last = "frame" /\ id \in Recycled(calls)))
    /\ [][Len(bubbles') = Len(bubbles)]_vars

\* C10, the case: a frame that recycles a bubble, after a frame of the same
\* tick that did not
C10_RecycledAfterWait ==
    /\ last = "frame"
    /\ Recycled(calls) # {}
    /\ frames[area] >= 2
    /\ \E i \in 1..Len(bubbles) : bubbles[i].id \notin Recycled(calls)

====
